---- MODULE Spec2Model ----
(***************************************************************************)
(* Last.fm library exporter: the fetch client (lastfm_client.py) and the   *)
(* export pipeline (exporter.py) as a state machine.                       *)
(*                                                                         *)
(* One behaviour is one call: export_library (Spec), a direct call of      *)
(* get_user_artists / get_user_albums (SpecPaginate), or the albums CSV    *)
(* writer on a given album list (SpecAlbumsCsv).  The remote server and    *)
(* the file system are the environment: every response and every write    *)
(* outcome is chosen nondeterministically from bounded sets.               *)
(***************************************************************************)
EXTENDS Integers, Sequences, FiniteSets, TLC

\* Largest total-page count a response reports.
MaxPages == 3
\* Longest album list handed to the albums CSV writer in SpecAlbumsCsv.
MaxAlbums == 2

VARIABLES
    pc,            \* position in export_library / get_user_*
    caller,        \* "export_library" or "direct" (who called get_user_* / the writer)
    write_json,    \* export_library parameter
    write_csv,     \* export_library parameter
    dir_created,   \* output_dir.mkdir has succeeded
    current_page,  \* _iter_paginated local
    total_pages,   \* _iter_paginated local: <<>> is None, <<n>> is n
    collection,    \* get_user_* local list being filled by the for loop
    artists,       \* caller's variable: <<>> unassigned, <<list>> assigned
    albums,        \* caller's variable: <<>> unassigned, <<list>> assigned
    files,         \* the three output files on disk
    result,        \* <<>> or <<ExportResult>>
    error,         \* exception that reached the caller, "none" if none
    requests,      \* history: every HTTP request issued in this call
    pages_log,     \* history: the item part of every page body the server returned
                   \*          to the running _iter_paginated
    first_attr,    \* history: the metadata of page 1 of the running _iter_paginated
    write_log,     \* history: every file write attempted, with its outcome
    files0         \* history: the files as they were when the call started

vars == <<pc, caller, write_json, write_csv, dir_created, current_page, total_pages,
          collection, artists, albums, files, result, error, requests, pages_log,
          first_attr, write_log, files0>>

(***************************************************************************)
(* JSON values that matter to the code.                                    *)
(***************************************************************************)

\* The artist field of an album record: missing, a string, a mapping with a
\* name, a mapping without a name, or anything else (null, number, list).
ArtistNames == {"Radiohead", "Low"}

ArtistValues ==
    {[kind |-> "missing", s |-> ""], [kind |-> "other", s |-> ""],
     [kind |-> "dict_noname", s |-> ""], [kind |-> "str", s |-> ""]}
    \cup {[kind |-> "str", s |-> n] : n \in ArtistNames}
    \cup {[kind |-> "dict", s |-> n] : n \in ArtistNames}

\* A record (artist or album): a mapping; artist records have no artist key.
ItemX == [name |-> "x", artist |-> [kind |-> "missing", s |-> ""]]
ItemY == [name |-> "y", artist |-> [kind |-> "dict", s |-> "Radiohead"]]
ItemZ == [name |-> "z", artist |-> [kind |-> "str", s |-> "Low"]]

\* The value under the item-list key of a page container.
ItemPart(kind, single, many) == [kind |-> kind, single |-> single, many |-> many]

ItemParts ==
    {ItemPart("absent", ItemX, <<>>), ItemPart("null", ItemX, <<>>),
     ItemPart("dict", ItemZ, <<>>)}
    \cup {ItemPart("list", ItemX, l) : l \in {<<>>, <<ItemX>>, <<ItemY, ItemX>>}}

\* A total-page field value: absent/null, a JSON number, a JSON string (a
\* sequence of characters), or another JSON value (a non-empty list).
TPNone == [kind |-> "none", n |-> 0, s |-> <<>>]
TPInt(n) == [kind |-> "int", n |-> n, s |-> <<>>]
TPStr(s) == [kind |-> "str", n |-> 0, s |-> s]
TPOther == [kind |-> "other", n |-> 0, s |-> <<>>]

Digits == <<"0", "1", "2", "3", "4", "5", "6", "7", "8", "9">>

DigitStr(n) == <<Digits[n + 1]>>

TotalPagesValues ==
    {TPNone, TPOther, TPInt(-1)}
    \cup {TPInt(n) : n \in 0..MaxPages}
    \cup {TPStr(DigitStr(n)) : n \in 0..MaxPages}
    \cup {TPStr(<<>>), TPStr(<<"x">>), TPStr(<<"2", "x">>), TPStr(<<" ", "2">>),
          TPStr(<<"-", "1">>), TPStr(<<"0", "2">>)}

LowercaseValues == {TPNone, TPStr(<<"2">>), TPStr(<<"x">>), TPInt(0)}

\* The "@attr" entry of a page container.
Attr(kind, upper, lower) == [kind |-> kind, totalPages |-> upper, totalpages |-> lower]

Attrs ==
    {Attr("absent", TPNone, TPNone), Attr("nondict", TPNone, TPNone)}
    \cup {Attr("dict", u, l) : u \in TotalPagesValues, l \in LowercaseValues}

\* One HTTP exchange as the client sees it.
Response(fault, body, hasError, root, part, attr) ==
    [fault |-> fault, body |-> body, hasError |-> hasError, root |-> root,
     part |-> part, attr |-> attr]

NoPart == ItemPart("absent", ItemX, <<>>)
NoAttr == Attr("absent", TPNone, TPNone)

FailedResponses ==
    {Response(f, "dict", FALSE, "missing", NoPart, NoAttr) :
        f \in {"transport", "http", "badjson"}}
    \cup {Response("none", "dict", TRUE, r, NoPart, NoAttr) : r \in {"missing", "dict"}}
    \cup {Response("none", "dict", FALSE, "missing", NoPart, NoAttr)}

OddResponses ==
    {Response("none", "nondict", FALSE, "missing", NoPart, NoAttr),
     Response("none", "dict", FALSE, "nondict", NoPart, NoAttr)}

PageResponses(parts, attrs) ==
    {Response("none", "dict", FALSE, "dict", p, a) : p \in parts, a \in attrs}

\* Every response of the model.
Responses == FailedResponses \cup OddResponses \cup PageResponses(ItemParts, Attrs)

(***************************************************************************)
(* lastfm_client.py                                                        *)
(***************************************************************************)

\* Python truthiness of a total-page field value (the `or` of line 158).
Truthy(v) ==
    CASE v.kind = "none" -> FALSE
      [] v.kind = "int" -> v.n # 0
      [] v.kind = "str" -> v.s # <<>>
      [] OTHER -> TRUE

\* Python `a or b`.
PyOr(a, b) == IF Truthy(a) THEN a ELSE b

IsDigit(c) == \E i \in 1..10 : Digits[i] = c

DigitVal(c) == (CHOOSE i \in 1..10 : Digits[i] = c) - 1

RECURSIVE StripLeft(_)
StripLeft(s) == IF s # <<>> /\ Head(s) = " " THEN StripLeft(Tail(s)) ELSE s

RECURSIVE StripRight(_)
StripRight(s) ==
    IF s # <<>> /\ s[Len(s)] = " " THEN StripRight(SubSeq(s, 1, Len(s) - 1)) ELSE s

RECURSIVE DecVal(_)
DecVal(s) ==
    IF s = <<>> THEN 0 ELSE DecVal(SubSeq(s, 1, Len(s) - 1)) * 10 + DigitVal(s[Len(s)])

\* A variant of IntOfStr that reads a leading run of digits and ignores the
\* rest, as C's atoi does.
IntOfStrPrefix(s) ==
    LET t == StripLeft(s)
        k == IF t = <<>> THEN 0
             ELSE IF \A i \in 1..Len(t) : IsDigit(t[i]) THEN Len(t)
             ELSE (CHOOSE i \in 1..Len(t) : ~IsDigit(t[i]) /\ \A j \in 1..(i - 1) : IsDigit(t[j])) - 1
    IN  [ok |-> k > 0, n |-> DecVal(SubSeq(t, 1, k))]

\* Python int() of a string: surrounding whitespace stripped, an optional
\* sign, then one or more decimal digits; anything else is a ValueError.
IntOfStr(s) ==
    LET t == StripRight(StripLeft(s))
        signed == t # <<>> /\ Head(t) \in {"-", "+"}
        d == IF signed THEN Tail(t) ELSE t
        ok == d # <<>> /\ \A i \in 1..Len(d) : IsDigit(d[i])
    IN  [ok |-> ok,
         n |-> IF ~ok THEN 0 ELSE IF signed /\ Head(t) = "-" THEN 0 - DecVal(d) ELSE DecVal(d)]

\* Python int() of a total-page field value; ok = FALSE is TypeError/ValueError.
PyInt(v) ==
    CASE v.kind = "int" -> [ok |-> TRUE, n |-> v.n]
      [] v.kind = "str" -> IntOfStr(v.s)
      [] OTHER -> [ok |-> FALSE, n |-> 0]

\* attr.get(key) on the mapping found (or defaulted to {}) under "@attr".
AttrGet(attr, key) ==
    IF attr.kind = "dict"
    THEN (IF key = "totalPages" THEN attr.totalPages ELSE attr.totalpages)
    ELSE TPNone

\* Lines 157-165: the total page count taken from the first page.
TotalPagesFrom(attr) ==
    LET total_pages_str == PyOr(AttrGet(attr, "totalPages"), AttrGet(attr, "totalpages"))
    IN  IF total_pages_str.kind # "none"
        THEN (IF PyInt(total_pages_str).ok THEN PyInt(total_pages_str).n ELSE 1)
        ELSE 1

\* _request: "data" when the decoded body is returned, else the exception.
RequestOutcome(r) ==
    IF r.fault # "none" THEN "LastFMError"
    ELSE IF r.body = "dict" /\ r.hasError THEN "LastFMError"
    ELSE "data"

\* Lines 142-147: data.get(root_key) and the missing-container check.
ContainerOutcome(r) ==
    IF r.body # "dict" THEN "AttributeError"
    ELSE IF r.root = "missing" THEN "LastFMError"
    ELSE IF r.root # "dict" THEN "AttributeError"
    ELSE "container"

\* A variant of ItemsOf without the single-mapping wrap.
ItemsOfUnwrapped(part) == IF part.kind = "absent" THEN <<>> ELSE part.many

\* Lines 149-151: container.get(list_key, []) and the single-mapping wrap.
ItemsOf(part) ==
    CASE part.kind = "absent" -> <<>>
      [] part.kind = "dict" -> <<part.single>>
      [] OTHER -> part.many

\* A variant of LastPage that stops only on the exact total.
LastPageExact(page, total) == page = total

\* Line 167.
LastPage(page, total) == page >= total

\* One pass of the while loop of _iter_paginated on response r, with the
\* loop's locals as they stand: the exception raised ("none" if none), the
\* items yielded, the total page count afterwards and whether the loop ends.
IterStep(r, page, total) ==
    LET quit(e) == [error |-> e, yielded |-> <<>>, total |-> total, stop |-> TRUE]
        newTotal == IF total = <<>> THEN <<TotalPagesFrom(r.attr)>> ELSE total
    IN  IF RequestOutcome(r) # "data" THEN quit(RequestOutcome(r))
        ELSE IF ContainerOutcome(r) # "container" THEN quit(ContainerOutcome(r))
        ELSE IF r.part.kind = "null" THEN quit("TypeError")
        ELSE IF total = <<>> /\ r.attr.kind = "nondict"
             THEN [error |-> "AttributeError", yielded |-> ItemsOf(r.part),
                   total |-> total, stop |-> TRUE]
        ELSE [error |-> "none", yielded |-> ItemsOf(r.part), total |-> newTotal,
              stop |-> LastPage(page, newTotal[1])]

\* A variant of Drain that puts each page in front of the earlier ones.
DrainInFront(list, yielded) == yielded \o list

\* Lines 182-189 / 208-216: the for loop appends every yielded item.
Drain(list, yielded) == list \o yielded

\* The method name of the request each get_user_* issues.
MethodName(m) == IF m = "fetch_artists" THEN "library.getartists" ELSE "library.getalbums"

(***************************************************************************)
(* exporter.py                                                             *)
(***************************************************************************)

FileNames == {"json", "artists_csv", "albums_csv"}

AbsentFile == [status |-> "absent", content |-> <<>>]
OldFile == [status |-> "old", content |-> <<>>]

\* What open("w") and the writes that follow can do to a file.
WriteOutcomes == {"ok", "open_failed", "write_failed"}

WriteFile(old, content, outcome) ==
    CASE outcome = "ok" -> [status |-> "new", content |-> content]
      [] outcome = "open_failed" -> old
      [] OTHER -> [status |-> "partial", content |-> <<>>]

\* A variant of ExtractAlbumArtist that knows only the string form.
ExtractAlbumArtistStrOnly(album) ==
    IF album.artist.kind = "str" THEN album.artist.s ELSE ""

\* _extract_album_artist.
ExtractAlbumArtist(album) ==
    LET artist_value == album.artist
    IN  CASE artist_value.kind = "dict" -> artist_value.s
          [] artist_value.kind = "dict_noname" -> ""
          [] artist_value.kind = "str" -> artist_value.s
          [] artist_value.kind = "missing" -> ""
          [] OTHER -> ""

\* The rows _write_artists_csv and _write_albums_csv write after the header.
ArtistRows(list) == [i \in 1..Len(list) |-> [name |-> list[i].name]]

AlbumRows(list) ==
    [i \in 1..Len(list) |-> [name |-> list[i].name, artist |-> ExtractAlbumArtist(list[i])]]

\* Lines 57-62: the payload json.dump serialises.
ExportPayload(as, bs) == <<[artists |-> as, albums |-> bs]>>

\* A variant of MakeResult that reports every path whatever was requested.
MakeResultAllPaths(as, bs, wj, wc) ==
    [artists_count |-> Len(as), albums_count |-> Len(bs), json_path |-> <<"json">>,
     artists_csv_path |-> <<"artists_csv">>, albums_csv_path |-> <<"albums_csv">>]

\* Lines 79-85.
MakeResult(as, bs, wj, wc) ==
    [artists_count |-> Len(as), albums_count |-> Len(bs),
     json_path |-> IF wj THEN <<"json">> ELSE <<>>,
     artists_csv_path |-> IF wc THEN <<"artists_csv">> ELSE <<>>,
     albums_csv_path |-> IF wc THEN <<"albums_csv">> ELSE <<>>]

\* Where export_library goes once both collections are fetched and after
\* each file: every failure leaves through Raise.
AfterFetch(m) == IF m = "fetch_artists" THEN "fetch_albums" ELSE "write_json"

(***************************************************************************)
(* Actions                                                                 *)
(***************************************************************************)

\* A variant of Raise that notes the exception and carries on where it was.
RetryOnError(e) ==
    /\ pc' = pc
    /\ error' = e
    /\ collection' = collection

\* An exception leaves the call: locals are dropped, nothing is returned.
Raise(e) ==
    /\ pc' = "raised"
    /\ error' = e
    /\ collection' = <<>>

\* A variant of Mkdir that also opens the JSON file for writing before the
\* fetch starts.
MkdirOpeningJson ==
    /\ pc = "mkdir"
    /\ dir_created' = TRUE
    /\ pc' = "fetch_artists"
    /\ files' = [files EXCEPT !["json"] = [status |-> "partial", content |-> <<>>]]
    /\ UNCHANGED <<error, collection, caller, write_json, write_csv, current_page,
                   total_pages, artists, albums, result, requests, pages_log, first_attr,
                   write_log, files0>>

\* Line 45: output_dir.mkdir(parents=True, exist_ok=True).
Mkdir ==
    /\ pc = "mkdir"
    /\ \/ /\ dir_created' = TRUE
          /\ pc' = "fetch_artists"
          /\ UNCHANGED <<error, collection>>
       \/ /\ ~dir_created
          /\ Raise("OSError")
          /\ UNCHANGED dir_created
    /\ UNCHANGED <<caller, write_json, write_csv, current_page, total_pages, artists,
                   albums, files, result, requests, pages_log, first_attr, write_log,
                   files0>>

\* One pass of the while loop of _iter_paginated inside get_user_artists
\* (m = "fetch_artists") or get_user_albums (m = "fetch_albums"): the
\* request, the checks, the yields drained into the list, and either the
\* next page, the return of the list to the caller, or the exception.
FetchPage(m, r) ==
    /\ pc = m
    /\ requests' = Append(requests, [method |-> MethodName(m), page |-> current_page])
    /\ LET step == IterStep(r, current_page, total_pages)
           list == Drain(collection, step.yielded)
       IN  IF step.error # "none"
           THEN /\ Raise(step.error)
                /\ pages_log' = IF RequestOutcome(r) = "data" /\ ContainerOutcome(r) = "container"
                                THEN Append(pages_log, r.part) ELSE pages_log
                /\ first_attr' = IF first_attr = <<>> /\ RequestOutcome(r) = "data"
                                    /\ ContainerOutcome(r) = "container"
                                 THEN <<r.attr>> ELSE first_attr
                /\ UNCHANGED <<current_page, total_pages, artists, albums>>
           ELSE /\ error' = error
                /\ IF step.stop
                   THEN /\ pc' = IF caller = "direct" THEN "returned" ELSE AfterFetch(m)
                        /\ artists' = IF m = "fetch_artists" THEN <<list>> ELSE artists
                        /\ albums' = IF m = "fetch_albums" THEN <<list>> ELSE albums
                        /\ IF caller = "direct" \/ m = "fetch_albums"
                           THEN /\ collection' = list
                                /\ total_pages' = step.total
                                /\ pages_log' = Append(pages_log, r.part)
                                /\ first_attr' = IF first_attr = <<>> THEN <<r.attr>> ELSE first_attr
                                /\ UNCHANGED current_page
                           ELSE \* get_user_albums starts with fresh locals
                                /\ collection' = <<>>
                                /\ total_pages' = <<>>
                                /\ current_page' = 1
                                /\ pages_log' = <<>>
                                /\ first_attr' = <<>>
                   ELSE /\ pc' = pc
                        /\ collection' = list
                        /\ total_pages' = step.total
                        /\ current_page' = current_page + 1
                        /\ pages_log' = Append(pages_log, r.part)
                        /\ first_attr' = IF first_attr = <<>> THEN <<r.attr>> ELSE first_attr
                        /\ UNCHANGED <<artists, albums>>
    /\ UNCHANGED <<caller, write_json, write_csv, dir_created, files, result, write_log, files0>>

FetchArtists(R) == \E r \in R : FetchPage("fetch_artists", r)

FetchAlbums(R) == \E r \in R : FetchPage("fetch_albums", r)

\* A variant of Write that goes on to the next file after a failed write.
WriteIgnoringFailure(name, content, next) ==
    \E o \in WriteOutcomes :
        /\ files' = [files EXCEPT ![name] = WriteFile(files[name], content, o)]
        /\ write_log' = Append(write_log, [file |-> name, outcome |-> o])
        /\ pc' = next
        /\ UNCHANGED <<error, collection>>

\* One file write: open("w"), the writes, close.
Write(name, content, next) ==
    \E o \in WriteOutcomes :
        /\ files' = [files EXCEPT ![name] = WriteFile(files[name], content, o)]
        /\ write_log' = Append(write_log, [file |-> name, outcome |-> o])
        /\ IF o = "ok"
           THEN /\ pc' = next
                /\ UNCHANGED <<error, collection>>
           ELSE Raise("OSError")

\* Lines 68-71.
WriteJson ==
    /\ pc = "write_json"
    /\ IF write_json
       THEN Write("json", ExportPayload(artists[1], albums[1]), "write_artists_csv")
       ELSE /\ pc' = "write_artists_csv"
            /\ UNCHANGED <<files, write_log, error, collection>>
    /\ UNCHANGED <<caller, write_json, write_csv, dir_created, current_page, total_pages,
                   artists, albums, result, requests, pages_log, first_attr, files0>>

\* Lines 73-76.
WriteArtistsCsv ==
    /\ pc = "write_artists_csv"
    /\ IF write_csv
       THEN Write("artists_csv", ArtistRows(artists[1]), "write_albums_csv")
       ELSE /\ pc' = "return"
            /\ UNCHANGED <<files, write_log, error, collection>>
    /\ UNCHANGED <<caller, write_json, write_csv, dir_created, current_page, total_pages,
                   artists, albums, result, requests, pages_log, first_attr, files0>>

\* Line 77: _write_albums_csv.
WriteAlbumsCsv ==
    /\ pc = "write_albums_csv"
    /\ Write("albums_csv", AlbumRows(albums[1]),
             IF caller = "direct" THEN "returned" ELSE "return")
    /\ UNCHANGED <<caller, write_json, write_csv, dir_created, current_page, total_pages,
                   artists, albums, result, requests, pages_log, first_attr, files0>>

\* Lines 79-85.
Return ==
    /\ pc = "return"
    /\ result' = <<MakeResult(artists[1], albums[1], write_json, write_csv)>>
    /\ pc' = "returned"
    /\ UNCHANGED <<caller, write_json, write_csv, dir_created, current_page, total_pages,
                   collection, artists, albums, files, error, requests, pages_log,
                   first_attr, write_log, files0>>

(***************************************************************************)
(* Specifications                                                          *)
(***************************************************************************)

\* Locals and history at the start of any call.
Fresh ==
    /\ current_page = 1
    /\ total_pages = <<>>
    /\ collection = <<>>
    /\ result = <<>>
    /\ error = "none"
    /\ requests = <<>>
    /\ pages_log = <<>>
    /\ first_attr = <<>>
    /\ write_log = <<>>
    /\ files0 = files

\* The responses the server gives during export_library.
ExportParts ==
    {ItemPart("absent", ItemX, <<>>), ItemPart("null", ItemX, <<>>),
     ItemPart("dict", ItemZ, <<>>), ItemPart("list", ItemX, <<ItemY, ItemX>>)}

ExportAttrs ==
    {Attr("absent", TPNone, TPNone), Attr("nondict", TPNone, TPNone),
     Attr("dict", TPStr(<<"2">>), TPNone)}

ExportResponses == FailedResponses \cup OddResponses \cup PageResponses(ExportParts, ExportAttrs)

\* export_library(output_dir, base_name, write_json, write_csv).
Init ==
    /\ pc = "mkdir"
    /\ caller = "export_library"
    /\ write_json \in BOOLEAN
    /\ write_csv \in BOOLEAN
    /\ dir_created \in BOOLEAN
    /\ artists = <<>>
    /\ albums = <<>>
    /\ files \in [FileNames -> {AbsentFile, OldFile}]
    /\ Fresh

Next ==
    \/ Mkdir
    \/ FetchArtists(ExportResponses)
    \/ FetchAlbums(ExportResponses)
    \/ WriteJson
    \/ WriteArtistsCsv
    \/ WriteAlbumsCsv
    \/ Return

Spec == Init /\ [][Next]_vars

\* Every request returns or fails (the per-request timeout) and the
\* single-threaded call runs on.
FairSpec == Spec /\ WF_vars(Next)

\* get_user_artists(user) or get_user_albums(user) called on its own.
InitPaginate ==
    /\ pc \in {"fetch_artists", "fetch_albums"}
    /\ caller = "direct"
    /\ write_json = FALSE
    /\ write_csv = FALSE
    /\ dir_created = FALSE
    /\ artists = <<>>
    /\ albums = <<>>
    /\ files = [f \in FileNames |-> AbsentFile]
    /\ Fresh

NextPaginate ==
    \/ FetchArtists(Responses)
    \/ FetchAlbums(Responses)

SpecPaginate == InitPaginate /\ [][NextPaginate]_vars

FairSpecPaginate == SpecPaginate /\ WF_vars(NextPaginate)

\* _write_albums_csv(albums, csv_path) called on its own.
AlbumRecords == {[name |-> "a", artist |-> v] : v \in ArtistValues}

RECURSIVE SeqsUpTo(_, _)
SeqsUpTo(S, n) ==
    IF n = 0 THEN {<<>>}
    ELSE SeqsUpTo(S, n - 1) \cup {Append(q, x) : q \in SeqsUpTo(S, n - 1), x \in S}

InitAlbumsCsv ==
    /\ pc = "write_albums_csv"
    /\ caller = "direct"
    /\ write_json = FALSE
    /\ write_csv = TRUE
    /\ dir_created = TRUE
    /\ artists = <<>>
    /\ albums \in {<<l>> : l \in SeqsUpTo(AlbumRecords, MaxAlbums)}
    /\ files \in {[f \in FileNames |-> AbsentFile], [f \in FileNames |-> OldFile]}
    /\ Fresh

NextAlbumsCsv == WriteAlbumsCsv

SpecAlbumsCsv == InitAlbumsCsv /\ [][NextAlbumsCsv]_vars

(***************************************************************************)
(* Vocabulary of the properties                                            *)
(***************************************************************************)

\* The items a page body holds, as the remote contract defines them: the
\* list under the item key, a lone mapping standing for a one-item list, or
\* nothing when the key is absent.
PageItems(part) ==
    IF part.kind = "list" THEN part.many
    ELSE IF part.kind = "dict" THEN <<part.single>>
    ELSE <<>>

RECURSIVE ConcatPages(_)
ConcatPages(log) ==
    IF log = <<>> THEN <<>>
    ELSE ConcatPages(SubSeq(log, 1, Len(log) - 1)) \o PageItems(log[Len(log)])

\* The list a direct call of get_user_* returned.
Returned == IF artists # <<>> THEN artists[1] ELSE albums[1]

\* Every request so far succeeded and its body held the page container.
AllPagesOk == Len(pages_log) = Len(requests)

\* Every page so far has a usable shape: the item key absent, a list or a
\* mapping, and the metadata of page 1 absent or a mapping.
WellFormedPages ==
    /\ \A i \in 1..Len(pages_log) : pages_log[i].kind # "null"
    /\ first_attr # <<>> => first_attr[1].kind # "nondict"

\* v is the total-page count P, as a JSON number or its decimal string.
Denotes(v, P) ==
    \/ v.kind = "int" /\ v.n = P
    \/ v.kind = "str" /\ P >= 0 /\ v.s = DigitStr(P)
    \/ v.kind = "str" /\ P < 0 /\ v.s = <<"-">> \o DigitStr(0 - P)

\* The metadata reports the total-page count P under one of the two casings.
Reports(attr, P) ==
    /\ attr.kind = "dict"
    /\ \/ Denotes(attr.totalPages, P) /\ attr.totalpages.kind = "none"
       \/ attr.totalPages.kind = "none" /\ Denotes(attr.totalpages, P)

\* The i-th request of the running call asked for page i.
PagesInOrder == \A i \in 1..Len(requests) : requests[i].page = i

(***************************************************************************)
(* Properties of pagination (SpecPaginate)                                 *)
(***************************************************************************)

\* C1 as stated: whenever page 1 reports the total-page count P and every
\* request succeeds with its page container, the call issues exactly P
\* requests, for pages 1..P in order, and returns the concatenation of the
\* pages' items in page order.
C1_ExactlyPRequests ==
    (pc = "returned" /\ AllPagesOk /\ WellFormedPages) =>
        \A P \in 0..MaxPages :
            Reports(first_attr[1], P) =>
                /\ Len(requests) = P
                /\ PagesInOrder
                /\ Returned = ConcatPages(pages_log)

\* C1 amended: with page 1 reporting P and every request succeeding with a
\* well-formed page, the call does not fail, requests pages 1, 2, ... in
\* order, returns exactly after max(1, P) requests (page 1 is always
\* requested, also when P is 0 or negative) and returns the concatenation of
\* the pages' items in page order.
C1_MaxOnePRequests ==
    (first_attr # <<>> /\ AllPagesOk /\ WellFormedPages) =>
        \A P \in -1..MaxPages :
            Reports(first_attr[1], P) =>
                LET n == IF P >= 1 THEN P ELSE 1
                IN  /\ error = "none"
                    /\ Len(requests) <= n
                    /\ PagesInOrder
                    /\ (pc = "returned") <=> (Len(requests) = n)
                    /\ pc = "returned" => Returned = ConcatPages(pages_log)

\* A three-page fetch whose pages hold different items has returned.
C1_Witness ==
    /\ pc = "returned"
    /\ Reports(first_attr[1], 3)
    /\ Len(requests) = 3
    /\ requests[3] = [method |-> "library.getartists", page |-> 3]
    /\ artists = << <<ItemY, ItemX, ItemZ, ItemX>> >>

\* C6: when the metadata of page 1 holds no total-page field under either
\* casing, or holds none whose value parses as an integer, a well-formed
\* page 1 is the only page requested and the call returns its items.
DigitChars == {"0", "1", "2", "3", "4", "5", "6", "7", "8", "9"}

\* s reads as an integer: between optional surrounding blanks, an optional
\* sign followed by one or more decimal digits.
IsIntegerText(s) ==
    \E i, j \in 1..Len(s) :
        /\ i <= j
        /\ \A k \in 1..Len(s) : (k < i \/ k > j) => s[k] = " "
        /\ s[j] \in DigitChars
        /\ \A k \in i..j : s[k] \in DigitChars \/ (k = i /\ s[k] \in {"+", "-"})

\* v is a total-page value with no integer reading.
NotAnInteger(v) == v.kind = "other" \/ (v.kind = "str" /\ ~IsIntegerText(v.s))

NoUsableTotal(attr) ==
    \/ attr.kind = "absent"
    \/ /\ attr.kind = "dict"
       /\ \A v \in {attr.totalPages, attr.totalpages} : v.kind = "none" \/ NotAnInteger(v)

C6_SingleRequestWithoutTotal ==
    (first_attr # <<>> /\ NoUsableTotal(first_attr[1]) /\ pages_log[1].kind # "null") =>
        /\ pc = "returned"
        /\ error = "none"
        /\ requests = <<[method |-> MethodName(IF artists # <<>> THEN "fetch_artists"
                                                ELSE "fetch_albums"), page |-> 1]>>
        /\ Returned = PageItems(pages_log[1])

\* A non-numeric totalPages with a two-item page.
C6_Witness ==
    /\ pc = "returned"
    /\ first_attr = <<Attr("dict", TPStr(<<"2", "x">>), TPNone)>>
    /\ Len(requests) = 1
    /\ albums = << <<ItemY, ItemX>> >>

\* C9: a page whose item key holds a single mapping adds exactly that
\* mapping to the collection, a page without the item key adds nothing and
\* raises nothing, and after either the loop goes on as after any page: it
\* ends if the page number has reached the total, else requests the next.
C9_SingleMappingAndAbsentKey ==
    [][\A m \in {"fetch_artists", "fetch_albums"} :
         (/\ pc = m
          /\ Len(pages_log') = Len(pages_log) + 1
          /\ pages_log'[Len(pages_log')].kind \in {"dict", "absent"}
          /\ first_attr'[1].kind # "nondict")
         => LET part == pages_log'[Len(pages_log')]
                added == IF part.kind = "dict" THEN <<part.single>> ELSE <<>>
            IN  /\ error' = "none"
                /\ collection' = collection \o added
                /\ total_pages' # <<>>
                /\ IF current_page >= total_pages'[1]
                   THEN pc' = "returned" /\ Returned' = collection'
                   ELSE pc' = m /\ current_page' = current_page + 1]_vars

\* An empty page, then a single-mapping page: one item in all.
C9_Witness ==
    /\ pc = "returned"
    /\ Len(pages_log) = 2
    /\ pages_log[1].kind = "absent"
    /\ pages_log[2] = ItemPart("dict", ItemZ, <<>>)
    /\ artists = << <<ItemZ>> >>

\* C3: pagination always ends; the total is fixed once page 1 is in and
\* never changes; the n-th request asks for page n; and once the total is
\* known no page beyond it is requested.
C3_Terminates ==
    /\ <>(pc \in {"returned", "raised"})
    /\ [][total_pages # <<>> => total_pages' = total_pages]_vars
    /\ [][requests' # requests =>
            /\ Len(requests') = Len(requests) + 1
            /\ requests'[Len(requests')].page = Len(requests) + 1
            /\ requests'[Len(requests')].page = current_page
            /\ current_page' \in {current_page, current_page + 1}
            /\ total_pages = <<>> <=> Len(requests) = 0
            /\ total_pages # <<>> => current_page <= total_pages[1]]_vars

\* Two pages fetched with the total fixed at 2 although page 1 was not the last.
C3_Witness ==
    /\ pc = "returned"
    /\ total_pages = <<2>>
    /\ Len(requests) = 2
    /\ requests[2].page = 2

\* C5: whatever the server returns, a fault detected while fetching reaches
\* the caller as LastFMError.
C5_OnlyLastFMError == pc = "raised" => error = "LastFMError"

(***************************************************************************)
(* Properties of export_library (Spec)                                     *)
(***************************************************************************)

\* C2: when a request of either fetch fails with the API error, on any
\* page, no output file has been created or modified and nothing has been
\* written or returned: the created directory is the only effect.
C2_NoFileOnFetchFailure ==
    (pc = "raised" /\ error = "LastFMError") =>
        /\ files = files0
        /\ write_log = <<>>
        /\ result = <<>>
        /\ dir_created

\* The album fetch failed on its second page, over files of an earlier export.
C2_Witness ==
    /\ pc = "raised"
    /\ error = "LastFMError"
    /\ artists # <<>>
    /\ Len(requests) >= 3
    /\ requests[Len(requests)] = [method |-> "library.getalbums", page |-> 2]
    /\ write_json
    /\ files = [f \in FileNames |-> OldFile]

\* A fetch of export_library has failed.
FetchFailed == pc = "raised" /\ requests # <<>> /\ (artists = <<>> \/ albums = <<>>)

\* C4: a failure ends the call at once.  When a fetch has failed nothing is
\* returned or written and the album list was never assigned; if it was the
\* artist fetch, every request made was an artist request for pages 1, 2,
\* ... with none repeated and no album request; and once an error has been
\* raised no further request is issued.
C4_FailureIsTerminal ==
    /\ [](FetchFailed =>
            /\ result = <<>>
            /\ albums = <<>>
            /\ collection = <<>>
            /\ write_log = <<>>
            /\ \A i, j \in 1..Len(requests) : i # j => requests[i] # requests[j]
            /\ artists = <<>> =>
                 \A i \in 1..Len(requests) :
                     requests[i] = [method |-> "library.getartists", page |-> i])
    /\ [][error # "none" => requests' = requests /\ pc' = pc]_vars
    /\ [][error = "none" /\ error' # "none" => pc' = "raised"]_vars

\* The artist fetch failed on page 2: two requests, no album request.
C4_Witness ==
    /\ FetchFailed
    /\ error = "LastFMError"
    /\ artists = <<>>
    /\ Len(requests) = 2

\* The files export_library is asked to write, in the order it writes them.
ExpectedWrites ==
    (IF write_json THEN <<"json">> ELSE <<>>)
    \o (IF write_csv THEN <<"artists_csv", "albums_csv">> ELSE <<>>)

ExpectedContent(f) ==
    CASE f = "json" -> ExportPayload(artists[1], albums[1])
      [] f = "artists_csv" -> ArtistRows(artists[1])
      [] OTHER -> AlbumRows(albums[1])

\* C7: the writes follow the order json, artists csv, albums csv over the
\* formats requested; a failed write is the last write attempted and the
\* call raises without a result; every file whose write completed holds its
\* full content; a file not attempted is as it was before the call.
C7_WritesInOrderAbortOnFailure ==
    /\ Len(write_log) <= Len(ExpectedWrites)
    /\ \A i \in 1..Len(write_log) :
         /\ write_log[i].file = ExpectedWrites[i]
         /\ write_log[i].outcome # "ok" =>
              /\ i = Len(write_log)
              /\ pc = "raised"
              /\ error = "OSError"
              /\ result = <<>>
         /\ write_log[i].outcome = "ok" =>
              files[write_log[i].file] =
                  [status |-> "new", content |-> ExpectedContent(write_log[i].file)]
    /\ \A f \in FileNames :
         (\A i \in 1..Len(write_log) : write_log[i].file # f) => files[f] = files0[f]

\* The third write failed after the first two completed.
C7_Witness ==
    /\ pc = "raised"
    /\ Len(write_log) = 3
    /\ write_log[3] = [file |-> "albums_csv", outcome |-> "write_failed"]
    /\ files["json"].status = "new"
    /\ files["artists_csv"].status = "new"
    /\ files["albums_csv"].status = "partial"
    /\ result = <<>>

\* C8: a returned ExportResult matches the disk: a path is present exactly
\* for a requested format, whose file then holds the fetched data; the file
\* of an unrequested format is untouched; the counts are the lengths of the
\* fetched lists, which are also the row counts of the CSV files.
C8_ResultMatchesFiles ==
    result # <<>> =>
        LET r == result[1]
            written(f) == files[f] = [status |-> "new", content |-> ExpectedContent(f)]
        IN  /\ pc = "returned"
            /\ error = "none"
            /\ r.json_path = (IF write_json THEN <<"json">> ELSE <<>>)
            /\ r.artists_csv_path = (IF write_csv THEN <<"artists_csv">> ELSE <<>>)
            /\ r.albums_csv_path = (IF write_csv THEN <<"albums_csv">> ELSE <<>>)
            /\ \A f \in FileNames :
                 IF f \in {ExpectedWrites[i] : i \in 1..Len(ExpectedWrites)}
                 THEN written(f)
                 ELSE files[f] = files0[f]
            /\ r.artists_count = Len(artists[1])
            /\ r.albums_count = Len(albums[1])
            /\ write_csv => /\ Len(files["artists_csv"].content) = r.artists_count
                            /\ Len(files["albums_csv"].content) = r.albums_count

\* A JSON-only export of three artists over an older CSV file.
C8_Witness ==
    /\ result # <<>>
    /\ write_json /\ ~write_csv
    /\ result[1].artists_count = 3
    /\ result[1].albums_count = 0
    /\ result[1].artists_csv_path = <<>>
    /\ files["json"].status = "new"
    /\ files["artists_csv"] = OldFile

(***************************************************************************)
(* Properties of the albums CSV (SpecAlbumsCsv)                            *)
(***************************************************************************)

\* The artist column the export contract asks for.
ExpectedArtistColumn(a) == IF a.kind \in {"str", "dict"} THEN a.s ELSE ""

\* C10: in a written albums CSV every row's artist column is the artist
\* field itself when it is a string, its name entry when it is a mapping,
\* and empty when it is missing or of another shape; a string artist and a
\* mapping artist of the same name give the same column.
C10_AlbumArtistNormalised ==
    files["albums_csv"].status = "new" =>
        LET rows == files["albums_csv"].content
            list == albums[1]
        IN  /\ Len(rows) = Len(list)
            /\ \A i \in 1..Len(list) :
                 /\ rows[i].name = list[i].name
                 /\ rows[i].artist = ExpectedArtistColumn(list[i].artist)
            /\ \A i, j \in 1..Len(list) :
                 (/\ list[i].artist.kind = "str"
                  /\ list[j].artist.kind = "dict"
                  /\ list[i].artist.s = list[j].artist.s)
                 => rows[i].artist = rows[j].artist

\* A string artist and a mapping artist of the same name, both written.
C10_Witness ==
    /\ files["albums_csv"].status = "new"
    /\ albums = << <<[name |-> "a", artist |-> [kind |-> "str", s |-> "Radiohead"]],
                     [name |-> "a", artist |-> [kind |-> "dict", s |-> "Radiohead"]]>> >>
    /\ files["albums_csv"].content[2].artist = "Radiohead"

====
